---- MODULE Spec2Model ----
(***************************************************************************)
(* Verification model of the quant-trading-platform front end.            *)
(*                                                                         *)
(* The router mounts one view at a time; the variable view names it:       *)
(*   "trade"    src/src/views/trade-monitor/TradeMonitor.vue               *)
(*              (manual buy / sell, periodic loadAllData refresh,          *)
(*              checkRiskWarnings, handleWarning)                          *)
(*   "backtest" the StrategyBacktest component held in                     *)
(*              src/src/views/risk-warning/RiskWarning.vue                 *)
(*              (runBacktest / generateMockBacktestResult)                 *)
(*   "collect"  DataCollection, src/unnamed/part_009                       *)
(*   "auth"     Login, Header and Profile around localStorage              *)
(*              (src/unnamed/part_006, part_000, part_007)                 *)
(*   "notify"   NotificationCenter, src/unnamed/part_002                   *)
(*   "notifypage"  src/src/views/notification/NotificationCenterPage.vue   *)
(*   "visual"   the notifications of                                       *)
(*              src/src/views/visualization/Visualization.vue              *)
(*   "users"    src/src/views/user-management/UserManagement.vue           *)
(*                                                                         *)
(* Spec holds the trades and the backtest, WarnSpec the trade view with    *)
(* its warning table, LiveSpec one backtest run, PagesSpec the other      *)
(* pages.                                                                  *)
(*                                                                         *)
(* All amounts of money and all prices are integers counted in fen        *)
(* (0.01 yuan); the JavaScript numbers are doubles, and the inputs are    *)
(* drawn from sets on which the products with the fee rates are exact or  *)
(* are rounded down to one fen.                                            *)
(***************************************************************************)
EXTENDS Integers, Sequences, FiniteSets, TLC

\* ------------------------------------------------------------------ bounds
\* the longest trade history the trade view is allowed to grow to
MaxHistory == 6
\* the last value of the clock at which an order may be placed
MaxClock == 2
\* number of bars of one backtest run (252 in the source, scaled down)
days == 5
\* a trade signal is considered every tradeEvery-th bar (30 in the source)
tradeEvery == 2
\* the longest list of risk warnings whose rows are clicked
MaxWarnings == 7
\* number of rows of the user table
MaxUsers == 2
\* number of popup timers that may be pending when another popup is opened
MaxTimers == 2
\* number of mock notifications the notification center may add
MaxMocks == 1
\* number of collection runs that may be started on the collect view
MaxRuns == 2

\* ------------------------------------------------------------- JS values
\* the value of a property that an object does not have
Undefined == "undefined"
Yuan(n) == n * 100

Max(a, b) == IF a >= b THEN a ELSE b

\* ======================================================================
\*                       TradeMonitor.vue  (view "trade")
\* ======================================================================
VARIABLES
    view,                \* the mounted view
    accountBalance,      \* data().accountBalance
    availableFunds,      \* data().availableFunds
    positions,           \* data().positions
    totalPositionValue,  \* data().totalPositionValue
    tradeHistory,        \* data().tradeHistory, newest first
    buyForm,             \* data().buyForm
    sellForm,            \* data().sellForm
    dialog,              \* the open $confirm box and the closure it resumes
    riskWarnings,        \* data().riskWarnings, newest first
    activeWarnings,      \* data().activeWarnings
    thresholdForm,       \* thresholdForm.maxDrawdownThreshold, in 1/10000
    message,             \* the last text shown with this.$message
    now                  \* the clock read by new Date()

tmVars == <<accountBalance, availableFunds, positions, totalPositionValue,
            tradeHistory, buyForm, sellForm, dialog, riskWarnings,
            activeWarnings, thresholdForm, now>>

\* ---- the state of StrategyBacktest (RiskWarning.vue)
VARIABLES
    selectedStrategy,    \* data().selectedStrategy
    smaParams,           \* data().smaParams
    backtestParams,      \* data().backtestParams: initialCapital in fen,
                         \* transactionFee in 1/100 of a percent
    dateRange,           \* data().dateRange: <<start, end>> as day numbers,
                         \* <<>> when the picker is cleared
    isRunning,           \* data().isRunning
    performanceMetrics,  \* data().performanceMetrics
    tradeRecords,        \* data().tradeRecords
    backtestData,        \* data().backtestData
    pc,                  \* where runBacktest stands: "idle", "loop", "done"
    i,                   \* loop counter of generateMockBacktestResult
    dates, prices, signals, equity, trades,   \* its arrays
    currentDate, price, currentEquity, shares, lastBuyPrice   \* its locals

btVars == <<selectedStrategy, smaParams, backtestParams, dateRange, isRunning,
            performanceMetrics, tradeRecords, backtestData, pc, i, dates,
            prices, signals, equity, trades, currentDate, price,
            currentEquity, shares, lastBuyPrice>>

\* ---- the state of DataCollection (unnamed/part_009)
VARIABLES
    collecting,          \* data().collecting
    collectionProgress,  \* data().collectionProgress, in percent
    collectionResult,    \* data().collectionResult: "null", "success" or
                         \* "interrupted"
    collectedStocks,     \* data().collectedStocks
    collectionTimer,     \* data().collectionTimer: 0 for null, else the
                         \* number of the run whose interval it holds
    loops,               \* the for loops of startCollection, one per run:
                         \* stockCodes and the index i of the request that
                         \* is awaited (past the end once the loop is over)
    stopDialog           \* the $confirm box of stopCollection is open

dcVars == <<collecting, collectionProgress, collectionResult, collectedStocks,
            collectionTimer, loops, stopDialog>>

\* ---- the state shared by Login (unnamed/part_006), Header
\*      (unnamed/part_000) and Profile (unnamed/part_007)
VARIABLES
    token,               \* localStorage 'token': Null when the key is absent
    userInfo,            \* localStorage 'userInfo': Null when absent, "full"
                         \* for the object stored by the login, "partial" for
                         \* one that holds the profile fields only
    route,               \* the page the router shows: "login" or "app"
    pending,             \* the requests that have been sent and not answered
    logoutDialog         \* the $confirm box of the logout command is open

auVars == <<token, userInfo, route, pending, logoutDialog>>

\* ---- the state of NotificationCenter (unnamed/part_002); the list and the
\*      requests also stand for those of NotificationCenterPage.vue when
\*      that page is the view
VARIABLES
    notifications,          \* data().notifications: id and read flag
    showNotificationPopup,  \* data().showNotificationPopup
    notificationPopup,      \* data().notificationPopup: the id of the
                            \* notification whose title and message it shows
    timers,                 \* the setTimeout callbacks of showNotification
                            \* that have not fired, oldest first, each with
                            \* the id its call was made for
    requests,               \* the mark-as-read requests not yet answered
    mocks                   \* number of addMockNotification calls so far

ncVars == <<notifications, showNotificationPopup, notificationPopup, timers,
            requests, mocks>>

\* ---- the state of UserManagement.vue
VARIABLES
    users,               \* data().users: the id of every row, a JavaScript
                         \* value with its type
    deleteDialog,        \* the userId the $confirm box of confirmDeleteUser
                         \* was opened for, NoUser when it is closed
    deleteRequests       \* the URLs of the DELETE requests sent and not yet
                         \* answered

umVars == <<users, deleteDialog, deleteRequests>>

pgVars == <<dcVars, auVars, ncVars, umVars>>

vars == <<view, message, tmVars, btVars, pgVars>>

\* ---- inputs the user can type into the buy and sell forms
Codes == {"600519", "000001"}
Prices == {Yuan(1000)}
Quantities == {100, 300}

\* thresholdForm.maxDrawdownThreshold of data(): 0.1
DefaultThreshold == 1000

EmptyForm == [stockCode |-> "", price |-> 0, quantity |-> 0]
NoDialog == [kind |-> "none"]

\* ---- getMockPositions
MockPositions ==
    << [symbol |-> "600519", quantity |-> 100, avg_price |-> 168000,
        current_price |-> 172050, market_value |-> 17205000],
       [symbol |-> "000858", quantity |-> 200, avg_price |-> 16500,
        current_price |-> 16020, market_value |-> 3204000],
       [symbol |-> "000001", quantity |-> 500, avg_price |-> 1250,
        current_price |-> 1320, market_value |-> 660000] >>

\* ---- getMockTradeHistory
MockTradeHistory ==
    << [symbol |-> "600519", side |-> "buy", quantity |-> 100,
        price |-> 168000, amount |-> 16800000, fee |-> 1680],
       [symbol |-> "000858", side |-> "sell", quantity |-> 100,
        price |-> 16250, amount |-> 1625000, fee |-> 163],
       [symbol |-> "000001", side |-> "buy", quantity |-> 500,
        price |-> 1250, amount |-> 625000, fee |-> 63],
       [symbol |-> "600036", side |-> "buy", quantity |-> 200,
        price |-> 3560, amount |-> 712000, fee |-> 71] >>

\* ---- generateMockRiskWarnings; a warning without relatedAsset reads
\*      undefined there; total marks a message containing '总持仓比例'
MockRiskWarnings ==
    << [id |-> "RW20240615001", type |-> "position", relatedAsset |-> "600036",
        total |-> FALSE, status |-> "unhandled"],
       [id |-> "RW20240615002", type |-> "drawdown", relatedAsset |-> Undefined,
        total |-> FALSE, status |-> "unhandled"],
       [id |-> "RW20240614001", type |-> "volatility", relatedAsset |-> Undefined,
        total |-> FALSE, status |-> "handled"],
       [id |-> "RW20240613001", type |-> "market", relatedAsset |-> Undefined,
        total |-> FALSE, status |-> "handled"],
       [id |-> "RW20240612001", type |-> "margin", relatedAsset |-> Undefined,
        total |-> FALSE, status |-> "handled"] >>

\* number of warnings of rw whose status is 'unhandled' (the filter(...).length)
RECURSIVE Unhandled(_)
Unhandled(rw) ==
    IF rw = <<>> THEN 0
    ELSE (IF Head(rw).status = "unhandled" THEN 1 ELSE 0) + Unhandled(Tail(rw))

\* a manual trade that is charged no fee
TradeFee_None(amount) == 0

\* ---- the fee of a manual trade: amount * 0.001
TradeFee(amount) == amount \div 1000

\* ---- buyForm.symbol: the form has stockCode and stockName, no symbol
BuyFormSymbol(form) == Undefined

\* ---- calculatePositionStats: market_value of every position
RECURSIVE calculatePositionStats(_)
calculatePositionStats(ps) ==
    IF ps = <<>> THEN <<>>
    ELSE <<[Head(ps) EXCEPT !.market_value =
                Head(ps).quantity * Head(ps).current_price]>>
         \o calculatePositionStats(Tail(ps))

RECURSIVE TotalValue(_)
TotalValue(ps) ==
    IF ps = <<>> THEN 0 ELSE Head(ps).market_value + TotalValue(Tail(ps))

\* ---- the id of a warning created at clock value t: `RW${now.getTime()}`
WarningId(t) == "RW" \o ToString(t)

\* ---- checkRiskWarnings, first loop: one position after the other, a
\*      warning for a stock above 40% of the position value unless an
\*      unhandled warning for the same relatedAsset is already listed
RECURSIVE CheckStocks(_, _, _, _)
CheckStocks(ps, rw, tpv, t) ==
    IF ps = <<>> THEN rw
    ELSE LET p == Head(ps)
             over == tpv > 0 /\ p.market_value * 5 > 2 * tpv
             dup == \E k \in 1..Len(rw) :
                        /\ rw[k].relatedAsset = p.symbol
                        /\ rw[k].status = "unhandled"
             w == [id |-> WarningId(t), type |-> "risk",
                   relatedAsset |-> p.symbol, total |-> FALSE,
                   status |-> "unhandled"]
         IN CheckStocks(Tail(ps), IF over /\ ~dup THEN <<w>> \o rw ELSE rw,
                        tpv, t)

\* ---- the position ratio check of checkRiskWarnings: above 90% of equity
PositionLimitExceeded(bal, tpv) == bal + tpv > 0 /\ tpv * 10 > 9 * (bal + tpv)

\* ---- checkRiskWarnings, second part: total position ratio above 90%
CheckTotal(rw, bal, tpv, t) ==
    LET over == PositionLimitExceeded(bal, tpv)
        dup == \E k \in 1..Len(rw) :
                   /\ rw[k].type = "risk"
                   /\ rw[k].total
                   /\ rw[k].status = "unhandled"
        w == [id |-> WarningId(t), type |-> "risk", relatedAsset |-> Undefined,
              total |-> TRUE, status |-> "unhandled"]
    IN IF over /\ ~dup THEN <<w>> \o rw ELSE rw

\* ---- checkRiskWarnings: the new riskWarnings; activeWarnings grows by one
\*      for every warning added
checkRiskWarnings(ps, rw, bal, tpv, t) ==
    CheckTotal(CheckStocks(ps, rw, tpv, t), bal, tpv, t)

\* ---- form.validate of the buy and the sell form: stockCode required,
\*      price a number >= 0, quantity a number >= 1
FormValid(form) ==
    /\ form.stockCode # ""
    /\ form.price >= 0
    /\ form.quantity >= 1

\* index of the first position with this symbol, 0 when there is none
\* (positions.find / positions.findIndex)
FindIndex(ps, sym) ==
    IF \E k \in 1..Len(ps) : ps[k].symbol = sym
    THEN CHOOSE k \in 1..Len(ps) :
            /\ ps[k].symbol = sym
            /\ \A j \in 1..(k - 1) : ps[j].symbol # sym
    ELSE 0

\* positions.splice(index, 1)
Splice(ps, k) == SubSeq(ps, 1, k - 1) \o SubSeq(ps, k + 1, Len(ps))

\* a funds check that forgets the fee
InsufficientFunds_NoFee(totalAmount, fee, funds) == totalAmount > funds

\* ---- the funds check of buyStock
InsufficientFunds(totalAmount, fee, funds) == totalAmount + fee > funds

\* a sell that is never checked against the held quantity
ExceedsPosition_Never(qty, held) == FALSE

\* ---- the quantity check of sellPosition against the position found
ExceedsPosition(qty, held) == qty > held

\* ------------------------------------------------------------ buyStock
\* form.validate fails
buyStockInvalid(code, px, qty) ==
    /\ view = "trade" /\ dialog.kind = "none"
    /\ buyForm' = [stockCode |-> code, price |-> px, quantity |-> qty]
    /\ ~FormValid(buyForm')
    /\ message' = "buy_form_incomplete"
    /\ UNCHANGED <<accountBalance, availableFunds, positions,
                   totalPositionValue, tradeHistory, sellForm, dialog,
                   riskWarnings, activeWarnings, thresholdForm, now>>
    /\ UNCHANGED <<view, btVars, pgVars>>

\* totalAmount + fee > availableFunds: the order is refused
buyStockInsufficient(code, px, qty) ==
    /\ view = "trade" /\ dialog.kind = "none"
    /\ buyForm' = [stockCode |-> code, price |-> px, quantity |-> qty]
    /\ FormValid(buyForm')
    /\ LET totalAmount == qty * px
           fee == TradeFee(totalAmount)
       IN InsufficientFunds(totalAmount, fee, availableFunds)
    /\ message' = "insufficient_funds"
    /\ UNCHANGED <<accountBalance, availableFunds, positions,
                   totalPositionValue, tradeHistory, sellForm, dialog,
                   riskWarnings, activeWarnings, thresholdForm, now>>
    /\ UNCHANGED <<view, btVars, pgVars>>

\* the order passes the check and the confirm box opens; the closure keeps
\* totalAmount and fee
buyStockAsk(code, px, qty) ==
    /\ view = "trade" /\ dialog.kind = "none"
    /\ Len(tradeHistory) < MaxHistory /\ now < MaxClock
    /\ buyForm' = [stockCode |-> code, price |-> px, quantity |-> qty]
    /\ FormValid(buyForm')
    /\ LET totalAmount == qty * px
           fee == TradeFee(totalAmount)
       IN /\ ~InsufficientFunds(totalAmount, fee, availableFunds)
          /\ dialog' = [kind |-> "buy", totalAmount |-> totalAmount,
                        fee |-> fee]
    /\ UNCHANGED <<accountBalance, availableFunds, positions,
                   totalPositionValue, tradeHistory, sellForm,
                   riskWarnings, activeWarnings, thresholdForm, message, now>>
    /\ UNCHANGED <<view, btVars, pgVars>>

\* the click on the buy button with these fields in the form
buyStock(code, px, qty) ==
    \/ buyStockInvalid(code, px, qty)
    \/ buyStockInsufficient(code, px, qty)
    \/ buyStockAsk(code, px, qty)

\* the user confirms: trade record, new position, cash, statistics, warnings
buyStockConfirm ==
    /\ view = "trade" /\ dialog.kind = "buy"
    /\ LET tradeRecord == [symbol |-> BuyFormSymbol(buyForm), side |-> "buy",
                           quantity |-> buyForm.quantity,
                           price |-> buyForm.price,
                           amount |-> dialog.totalAmount, fee |-> dialog.fee]
           pushed == Append(positions,
                        [symbol |-> BuyFormSymbol(buyForm),
                         quantity |-> buyForm.quantity,
                         avg_price |-> buyForm.price,
                         current_price |-> buyForm.price,
                         market_value |-> dialog.totalAmount])
           ps == calculatePositionStats(pushed)
           bal == accountBalance - (dialog.totalAmount + dialog.fee)
           rw == checkRiskWarnings(ps, riskWarnings, bal, TotalValue(ps), now)
       IN /\ tradeHistory' = <<tradeRecord>> \o tradeHistory
          /\ positions' = ps
          /\ totalPositionValue' = TotalValue(ps)
          /\ accountBalance' = bal
          /\ availableFunds' = availableFunds - (dialog.totalAmount + dialog.fee)
          /\ riskWarnings' = rw
          /\ activeWarnings' = activeWarnings + (Len(rw) - Len(riskWarnings))
          /\ now' = IF Len(rw) > Len(riskWarnings) THEN now + 1 ELSE now
    /\ buyForm' = EmptyForm
    /\ dialog' = NoDialog
    /\ message' = "buy_success"
    /\ UNCHANGED <<sellForm, thresholdForm>>
    /\ UNCHANGED <<view, btVars, pgVars>>

\* the user cancels the confirm box
buyStockCancel ==
    /\ view = "trade" /\ dialog.kind = "buy"
    /\ dialog' = NoDialog
    /\ message' = "buy_cancelled"
    /\ UNCHANGED <<accountBalance, availableFunds, positions,
                   totalPositionValue, tradeHistory, buyForm, sellForm,
                   riskWarnings, activeWarnings, thresholdForm, now>>
    /\ UNCHANGED <<view, btVars, pgVars>>

\* --------------------------------------------------------- sellPosition
\* form.validate fails
sellPositionInvalid(code, px, qty) ==
    /\ view = "trade" /\ dialog.kind = "none"
    /\ sellForm' = [stockCode |-> code, price |-> px, quantity |-> qty]
    /\ ~FormValid(sellForm')
    /\ message' = "sell_form_incomplete"
    /\ UNCHANGED <<accountBalance, availableFunds, positions,
                   totalPositionValue, tradeHistory, buyForm, dialog,
                   riskWarnings, activeWarnings, thresholdForm, now>>
    /\ UNCHANGED <<view, btVars, pgVars>>

\* no position has the symbol of the form
sellPositionNotHeld(code, px, qty) ==
    /\ view = "trade" /\ dialog.kind = "none"
    /\ sellForm' = [stockCode |-> code, price |-> px, quantity |-> qty]
    /\ FormValid(sellForm')
    /\ FindIndex(positions, code) = 0
    /\ message' = "not_held"
    /\ UNCHANGED <<accountBalance, availableFunds, positions,
                   totalPositionValue, tradeHistory, buyForm, dialog,
                   riskWarnings, activeWarnings, thresholdForm, now>>
    /\ UNCHANGED <<view, btVars, pgVars>>

\* the quantity of the form exceeds the held quantity: the order is refused
sellPositionOverSell(code, px, qty) ==
    /\ view = "trade" /\ dialog.kind = "none"
    /\ sellForm' = [stockCode |-> code, price |-> px, quantity |-> qty]
    /\ FormValid(sellForm')
    /\ FindIndex(positions, code) # 0
    /\ ExceedsPosition(qty, positions[FindIndex(positions, code)].quantity)
    /\ message' = "sell_exceeds_position"
    /\ UNCHANGED <<accountBalance, availableFunds, positions,
                   totalPositionValue, tradeHistory, buyForm, dialog,
                   riskWarnings, activeWarnings, thresholdForm, now>>
    /\ UNCHANGED <<view, btVars, pgVars>>

\* the order passes both checks and the confirm box opens
sellPositionAsk(code, px, qty) ==
    /\ view = "trade" /\ dialog.kind = "none"
    /\ Len(tradeHistory) < MaxHistory /\ now < MaxClock
    /\ sellForm' = [stockCode |-> code, price |-> px, quantity |-> qty]
    /\ FormValid(sellForm')
    /\ FindIndex(positions, code) # 0
    /\ ~ExceedsPosition(qty, positions[FindIndex(positions, code)].quantity)
    /\ dialog' = [kind |-> "sell"]
    /\ UNCHANGED <<accountBalance, availableFunds, positions,
                   totalPositionValue, tradeHistory, buyForm,
                   riskWarnings, activeWarnings, thresholdForm, message, now>>
    /\ UNCHANGED <<view, btVars, pgVars>>

\* the click on the sell button with these fields in the form
sellPosition(code, px, qty) ==
    \/ sellPositionInvalid(code, px, qty)
    \/ sellPositionNotHeld(code, px, qty)
    \/ sellPositionOverSell(code, px, qty)
    \/ sellPositionAsk(code, px, qty)

\* positions after the sell of the form has been applied to them
SellUpdate(ps, form) ==
    LET index == FindIndex(ps, form.stockCode)
    IN IF index = 0 THEN ps
       ELSE IF form.quantity = ps[index].quantity THEN Splice(ps, index)
       ELSE [ps EXCEPT ![index].quantity = ps[index].quantity - form.quantity]

\* the user confirms: trade record, position, cash, statistics, warnings
sellPositionConfirm ==
    /\ view = "trade" /\ dialog.kind = "sell"
    /\ LET amount == sellForm.quantity * sellForm.price
           tradeRecord == [symbol |-> sellForm.stockCode, side |-> "sell",
                           quantity |-> sellForm.quantity,
                           price |-> sellForm.price,
                           amount |-> amount, fee |-> TradeFee(amount)]
           ps == calculatePositionStats(SellUpdate(positions, sellForm))
           bal == accountBalance + (tradeRecord.amount - tradeRecord.fee)
           rw == checkRiskWarnings(ps, riskWarnings, bal, TotalValue(ps), now)
       IN /\ tradeHistory' = <<tradeRecord>> \o tradeHistory
          /\ positions' = ps
          /\ totalPositionValue' = TotalValue(ps)
          /\ accountBalance' = bal
          /\ availableFunds' = availableFunds
                                 + (tradeRecord.amount - tradeRecord.fee)
          /\ riskWarnings' = rw
          /\ activeWarnings' = activeWarnings + (Len(rw) - Len(riskWarnings))
          /\ now' = IF Len(rw) > Len(riskWarnings) THEN now + 1 ELSE now
    /\ sellForm' = EmptyForm
    /\ dialog' = NoDialog
    /\ message' = "sell_success"
    /\ UNCHANGED <<buyForm, thresholdForm>>
    /\ UNCHANGED <<view, btVars, pgVars>>

\* the user cancels the confirm box
sellPositionCancel ==
    /\ view = "trade" /\ dialog.kind = "sell"
    /\ dialog' = NoDialog
    /\ message' = "sell_cancelled"
    /\ UNCHANGED <<accountBalance, availableFunds, positions,
                   totalPositionValue, tradeHistory, buyForm, sellForm,
                   riskWarnings, activeWarnings, thresholdForm, now>>
    /\ UNCHANGED <<view, btVars, pgVars>>

\* ---- riskWarnings.findIndex(item => item.id === warning.id): the first
\*      index with that id, 0 for -1
WarningIndex(rw, id) ==
    IF \E k \in 1..Len(rw) : rw[k].id = id
    THEN CHOOSE k \in 1..Len(rw) :
            /\ rw[k].id = id
            /\ \A j \in 1..(k - 1) : rw[j].id # id
    ELSE 0

\* ---- handleWarning: the click on the button of row k, shown only for an
\*      unhandled warning
handleWarningAsk(k) ==
    /\ view = "trade" /\ dialog.kind = "none"
    /\ k \in 1..Len(riskWarnings)
    /\ riskWarnings[k].status = "unhandled"
    /\ activeWarnings > 0
    /\ dialog' = [kind |-> "warning", id |-> riskWarnings[k].id]
    /\ UNCHANGED <<accountBalance, availableFunds, positions,
                   totalPositionValue, tradeHistory, buyForm, sellForm,
                   riskWarnings, activeWarnings, thresholdForm, message, now>>
    /\ UNCHANGED <<view, btVars, pgVars>>

\* the user confirms: the warning found by id is marked and the counter
\* goes down by one
handleWarningConfirm ==
    /\ view = "trade" /\ dialog.kind = "warning"
    /\ LET index == WarningIndex(riskWarnings, dialog.id)
       IN IF index # 0
          THEN /\ riskWarnings' =
                      [riskWarnings EXCEPT ![index].status = "handled"]
               /\ activeWarnings' = activeWarnings - 1
               /\ message' = "warning_handled"
          ELSE UNCHANGED <<riskWarnings, activeWarnings, message>>
    /\ dialog' = NoDialog
    /\ UNCHANGED <<accountBalance, availableFunds, positions,
                   totalPositionValue, tradeHistory, buyForm, sellForm,
                   thresholdForm, now>>
    /\ UNCHANGED <<view, btVars, pgVars>>

\* the user dismisses the box
handleWarningCancel ==
    /\ view = "trade" /\ dialog.kind = "warning"
    /\ dialog' = NoDialog
    /\ message' = "warning_cancelled"
    /\ UNCHANGED <<accountBalance, availableFunds, positions,
                   totalPositionValue, tradeHistory, buyForm, sellForm,
                   riskWarnings, activeWarnings, thresholdForm, now>>
    /\ UNCHANGED <<view, btVars, pgVars>>

\* ---------------------------------------------------------- loadAllData
\* What the seven requests of loadAllData can answer.  The flags say
\* which parts the answer holds; a balance or available_funds of 0 is falsy
\* and counts as absent, and so does a threshold of 0.
ServerResponses ==
    { \* an account of 100100 yuan holding 300 shares of 600519
      [hasPositions |-> TRUE, hasTrades |-> TRUE,
       positions |-> << [symbol |-> "600519", quantity |-> 300,
                         avg_price |-> 168000, current_price |-> 172050,
                         market_value |-> 51615000] >>,
       trades |-> <<>>,
       account |-> [balance |-> Yuan(100100),
                    available_funds |-> Yuan(100100)],
       warnings |-> <<>>,
       maxDrawdownThreshold |-> 50],
      \* an empty account of 100000 yuan, one risk notification, no
      \* trades and no threshold in the answer
      [hasPositions |-> TRUE, hasTrades |-> FALSE,
       positions |-> <<>>,
       trades |-> <<>>,
       account |-> [balance |-> Yuan(100000),
                    available_funds |-> Yuan(100000)],
       warnings |-> << [id |-> "N1", type |-> "risk",
                        relatedAsset |-> Undefined, total |-> FALSE,
                        status |-> "unhandled"],
                       [id |-> "N2", type |-> "system",
                        relatedAsset |-> Undefined, total |-> FALSE,
                        status |-> "unhandled"] >>,
       maxDrawdownThreshold |-> 0] }

\* data.filter(n => n.type === 'risk' || n.type === 'warning')
RECURSIVE RiskOnly(_)
RiskOnly(ns) ==
    IF ns = <<>> THEN <<>>
    ELSE (IF Head(ns).type \in {"risk", "warning"} THEN <<Head(ns)>> ELSE <<>>)
         \o RiskOnly(Tail(ns))

\* all seven requests answered
loadAllDataSuccess(resp) ==
    /\ view = "trade"
    /\ LET ps == calculatePositionStats(
                    IF resp.hasPositions THEN resp.positions
                    ELSE MockPositions)
           filtered == RiskOnly(resp.warnings)
           rw == IF filtered = <<>> THEN MockRiskWarnings ELSE filtered
       IN /\ positions' = ps
          /\ totalPositionValue' = TotalValue(ps)
          /\ tradeHistory' = IF resp.hasTrades THEN resp.trades
                             ELSE MockTradeHistory
          /\ IF resp.account.balance # 0 /\ resp.account.available_funds # 0
             THEN /\ accountBalance' = resp.account.balance
                  /\ availableFunds' = resp.account.available_funds
             ELSE /\ accountBalance' = Yuan(500000)
                  /\ availableFunds' = Yuan(300000)
          /\ riskWarnings' = rw
          /\ activeWarnings' = Unhandled(rw)
          /\ thresholdForm' = IF resp.maxDrawdownThreshold # 0
                              THEN resp.maxDrawdownThreshold
                              ELSE DefaultThreshold
    /\ UNCHANGED <<buyForm, sellForm, dialog, message, now>>
    /\ UNCHANGED <<view, btVars, pgVars>>

\* a request failed: the catch branch installs the mock data
loadAllDataFailure ==
    /\ view = "trade"
    /\ positions' = calculatePositionStats(MockPositions)
    /\ totalPositionValue' = TotalValue(positions')
    /\ tradeHistory' = MockTradeHistory
    /\ accountBalance' = Yuan(500000)
    /\ availableFunds' = Yuan(300000)
    /\ riskWarnings' = MockRiskWarnings
    /\ activeWarnings' = Unhandled(MockRiskWarnings)
    /\ message' = "load_failed_using_mock"
    /\ UNCHANGED <<buyForm, sellForm, dialog, thresholdForm, now>>
    /\ UNCHANGED <<view, btVars, pgVars>>

\* the state of a freshly created TradeMonitor (data())
InitTrade ==
    /\ accountBalance = 0
    /\ availableFunds = 0
    /\ positions = <<>>
    /\ totalPositionValue = 0
    /\ tradeHistory = <<>>
    /\ buyForm = EmptyForm
    /\ sellForm = EmptyForm
    /\ dialog = NoDialog
    /\ riskWarnings = <<>>
    /\ activeWarnings = 0
    /\ now = 0

\* ======================================================================
\*          StrategyBacktest in RiskWarning.vue  (view "backtest")
\* ======================================================================
\* ---- values the user can give the parameters (el-input-number ranges:
\*      periods 1..100 / 1..200, capital 1000..1000000, fee 0..1 percent)
Strategies == {"sma", "macd"}
SmaChoices == {[shortPeriod |-> 5, longPeriod |-> 20],
               [shortPeriod |-> 20, longPeriod |-> 5]}
Capitals == {Yuan(1000)}
Fees == {100}
DateRanges == {<<>>, <<5, 370>>}
\* the threshold kept by the risk view while a backtest runs: 0.002, a value
\* that the drawdown of a run of `days` bars can exceed
Thresholds == {20}

\* ---- outcomes of (Math.random() - 0.49) * 2, in 1/10 of a percent
Changes == {-9, 10}

DefaultSma == [shortPeriod |-> 5, longPeriod |-> 20]
DefaultParams == [initialCapital |-> Yuan(100000), transactionFee |-> 10]
\* a JavaScript number that is defined, and the one that is not
Num(v) == [nan |-> FALSE, v |-> v]
NaN == [nan |-> TRUE, v |-> 0]

\* resetBacktestResults
EmptyMetrics == [totalReturn |-> 0, maxDrawdown |-> 0, sharpeRatio |-> Num(0),
                 winRate |-> Num(0), tradeCount |-> 0, finalEquity |-> 0]
EmptyData == [dates |-> <<>>, prices |-> <<>>, signals |-> <<>>,
              equity |-> <<>>]

\* amount * transactionFee / 100
FeeOf(amount, fee) == (amount * fee) \div 10000

\* cash after a buy: currentEquity - shares * price * (1 + fee / 100)
CashAfterBuy(cash, n, p, fee) == cash - (n * p + FeeOf(n * p, fee))

\* cash after a sell: currentEquity + sellAmount * (1 - fee / 100)
CashAfterSell(cash, n, p, fee) == cash + (n * p - FeeOf(n * p, fee))

\* Math.floor(currentEquity * 0.3 / price)
SharesToBuy(cash, p) == (3 * cash) \div (10 * p)

\* Math.max(price * (1 + change / 100), 50)
NextPrice(p, change) == Max(p + (p * change) \div 1000, Yuan(50))

\* a trade signal is considered at bar k
IsTradeBar(k) == k > 0 /\ k % tradeEvery = 0

\* the day after d, weekends skipped (getDay: 0 Sunday, 6 Saturday)
NextDate(d) ==
    LET n == d + 1
    IN IF n % 7 = 0 THEN n + 1 ELSE IF n % 7 = 6 THEN n + 2 ELSE n

\* ---- the parameter panel, usable while no run is in progress
selectStrategy(st) ==
    /\ view = "backtest" /\ pc = "idle"
    /\ selectedStrategy' = st
    /\ UNCHANGED <<smaParams, backtestParams, dateRange, isRunning,
                   performanceMetrics, tradeRecords, backtestData, pc, i,
                   dates, prices, signals, equity, trades, currentDate,
                   price, currentEquity, shares, lastBuyPrice, message>>
    /\ UNCHANGED <<view, tmVars, pgVars>>

setSmaParams(sp) ==
    /\ view = "backtest" /\ pc = "idle"
    /\ smaParams' = sp
    /\ UNCHANGED <<selectedStrategy, backtestParams, dateRange, isRunning,
                   performanceMetrics, tradeRecords, backtestData, pc, i,
                   dates, prices, signals, equity, trades, currentDate,
                   price, currentEquity, shares, lastBuyPrice, message>>
    /\ UNCHANGED <<view, tmVars, pgVars>>

setBacktestParams(cap, fee) ==
    /\ view = "backtest" /\ pc = "idle"
    /\ backtestParams' = [initialCapital |-> cap, transactionFee |-> fee]
    /\ UNCHANGED <<selectedStrategy, smaParams, dateRange, isRunning,
                   performanceMetrics, tradeRecords, backtestData, pc, i,
                   dates, prices, signals, equity, trades, currentDate,
                   price, currentEquity, shares, lastBuyPrice, message>>
    /\ UNCHANGED <<view, tmVars, pgVars>>

setDateRange(r) ==
    /\ view = "backtest" /\ pc = "idle"
    /\ dateRange' = r
    /\ UNCHANGED <<selectedStrategy, smaParams, backtestParams, isRunning,
                   performanceMetrics, tradeRecords, backtestData, pc, i,
                   dates, prices, signals, equity, trades, currentDate,
                   price, currentEquity, shares, lastBuyPrice, message>>
    /\ UNCHANGED <<view, tmVars, pgVars>>

\* ---- resetParams (the default date range is the last year)
resetParams ==
    /\ view = "backtest" /\ pc = "idle"
    /\ selectedStrategy' = "sma"
    /\ smaParams' = DefaultSma
    /\ backtestParams' = DefaultParams
    /\ dateRange' = <<5, 370>>
    /\ performanceMetrics' = EmptyMetrics
    /\ tradeRecords' = <<>>
    /\ backtestData' = EmptyData
    /\ message' = "params_reset"
    /\ UNCHANGED <<isRunning, pc, i, dates, prices, signals, equity, trades,
                   currentDate, price, currentEquity, shares, lastBuyPrice>>
    /\ UNCHANGED <<view, tmVars, pgVars>>

\* ---- runBacktest: the parameter check fails, nothing is run
runBacktestRejected ==
    /\ view = "backtest" /\ pc = "idle"
    /\ selectedStrategy = "" \/ dateRange = <<>>
    /\ message' = "complete_the_parameters"
    /\ UNCHANGED btVars
    /\ UNCHANGED <<view, tmVars, pgVars>>

\* a run that goes on from the final equity of the run before it
InitialCash_CarriedOver(params, metrics) ==
    IF metrics.finalEquity > 0 THEN metrics.finalEquity
    ELSE params.initialCapital

\* let currentEquity = this.backtestParams.initialCapital
InitialCash(params, metrics) == params.initialCapital

\* ---- runBacktest: isRunning = true, generateMockBacktestResult starts
runBacktestStart ==
    /\ view = "backtest" /\ pc = "idle"
    /\ ~(selectedStrategy = "" \/ dateRange = <<>>)
    /\ isRunning' = TRUE
    /\ pc' = "loop"
    /\ i' = 0
    /\ dates' = <<>> /\ prices' = <<>> /\ signals' = <<>>
    /\ equity' = <<>> /\ trades' = <<>>
    /\ currentDate' = dateRange[1]
    /\ price' = Yuan(100)
    /\ currentEquity' = InitialCash(backtestParams, performanceMetrics)
    /\ shares' = 0
    /\ lastBuyPrice' = 0
    /\ UNCHANGED <<selectedStrategy, smaParams, backtestParams, dateRange,
                   performanceMetrics, tradeRecords, backtestData, message>>
    /\ UNCHANGED <<view, tmVars, pgVars>>

\* trades.unshift(...) in the place of push
RecordTrade_Prepend(trs, trade) == <<trade>> \o trs

\* trades.push(...)
RecordTrade(trs, trade) == Append(trs, trade)

\* a sample only for the bars on which shares are held
PushEquity_OnlyWhenHeld(eq, held, cash, p) ==
    IF held > 0 THEN Append(eq, cash + held * p) ELSE eq

\* equity.push(...): the total when shares are held, the cash otherwise
PushEquity(eq, held, cash, p) ==
    Append(eq, IF held > 0 THEN cash + held * p ELSE cash)

\* ---- the loop body of generateMockBacktestResult for bar i, with the
\*      random price change and the outcome of Math.random() > 0.5: the
\*      values of the locals after the pass
BarStep(change, coin) ==
    LET p == NextPrice(price, change)
           fee == backtestParams.transactionFee
           buys == IsTradeBar(i) /\ coin /\ shares = 0
           sells == IsTradeBar(i) /\ ~buys /\ shares > 0
           n == IF buys THEN SharesToBuy(currentEquity, p) ELSE shares
           cash == IF buys THEN CashAfterBuy(currentEquity, n, p, fee)
                   ELSE IF sells THEN CashAfterSell(currentEquity, n, p, fee)
                   ELSE currentEquity
           held == IF sells THEN 0 ELSE n
           pnl == IF sells
                  THEN (n * p - FeeOf(n * p, fee))
                       - (n * lastBuyPrice + FeeOf(n * lastBuyPrice, fee))
                  ELSE 0
           trade == [date |-> currentDate,
                     action |-> IF buys THEN "buy" ELSE "sell",
                     price |-> p, quantity |-> n, amount |-> n * p,
                     equity |-> cash, pnl |-> pnl]
    IN [dates |-> Append(dates, currentDate),
        price |-> p,
        prices |-> Append(prices, p),
        shares |-> held,
        currentEquity |-> cash,
        lastBuyPrice |-> IF buys THEN p ELSE lastBuyPrice,
        trades |-> IF buys \/ sells THEN RecordTrade(trades, trade)
                   ELSE trades,
        signals |-> Append(signals,
                           IF buys THEN 1 ELSE IF sells THEN -1 ELSE 0),
        equity |-> PushEquity(equity, held, cash, p),
        currentDate |-> NextDate(currentDate)]

\* ---- one pass of the loop
generateBar(change, coin) ==
    /\ view = "backtest" /\ pc = "loop" /\ i < days
    /\ LET r == BarStep(change, coin)
       IN /\ dates' = r.dates
          /\ price' = r.price
          /\ prices' = r.prices
          /\ shares' = r.shares
          /\ currentEquity' = r.currentEquity
          /\ lastBuyPrice' = r.lastBuyPrice
          /\ trades' = r.trades
          /\ signals' = r.signals
          /\ equity' = r.equity
          /\ currentDate' = r.currentDate
    /\ i' = i + 1
    /\ UNCHANGED <<selectedStrategy, smaParams, backtestParams, dateRange,
                   isRunning, performanceMetrics, tradeRecords, backtestData,
                   pc, message>>
    /\ UNCHANGED <<view, tmVars, pgVars>>

\* ---- the maximum drawdown loop, result in 1/100 of a percent
RECURSIVE DrawdownFrom(_, _, _, _)
DrawdownFrom(eq, k, peakEquity, maxDrawdown) ==
    IF k > Len(eq) THEN maxDrawdown
    ELSE IF eq[k] > peakEquity THEN DrawdownFrom(eq, k + 1, eq[k], maxDrawdown)
    ELSE LET drawdown == ((peakEquity - eq[k]) * 10000) \div peakEquity
         IN DrawdownFrom(eq, k + 1, peakEquity, Max(drawdown, maxDrawdown))

\* the fall from the first sample to the last, no running peak
MaxDrawdownOf_FromStart(eq) ==
    DrawdownFrom(<<eq[1], eq[Len(eq)]>>, 2, eq[1], 0)

\* let maxDrawdown = 0; let peakEquity = parseFloat(equity[0]); the loop
MaxDrawdownOf(eq) == DrawdownFrom(eq, 2, eq[1], 0)

\* ---- the win rate loop: the trades with pnl > 0 and those with pnl < 0
RECURSIVE CountPnl(_, _, _)
CountPnl(trs, k, sign) ==
    IF k > Len(trs) THEN 0
    ELSE CountPnl(trs, k + 1, sign)
         + (IF trs[k].pnl * sign > 0 THEN 1 ELSE 0)

\* winCount / (winCount + loseCount) * 100 in 1/100 of a percent; JavaScript
\* gives NaN for 0 / 0
WinRatio(winCount, loseCount) ==
    IF winCount + loseCount = 0 THEN NaN
    ELSE Num((winCount * 10000) \div (winCount + loseCount))

\* trades.length > 0 ? winCount / (winCount + loseCount) * 100 : 0
WinRateOf(trs) ==
    IF Len(trs) > 0 THEN WinRatio(CountPnl(trs, 1, 1), CountPnl(trs, 1, -1))
    ELSE Num(0)

\* ---- the Sharpe block.  dailyReturn in 1/10000
DailyReturn(eq, k) == ((eq[k] - eq[k - 1]) * 10000) \div eq[k - 1]

\* dailyReturns.reduce((sum, ret) => sum + ret, 0)
RECURSIVE SumReturns(_, _)
SumReturns(eq, k) ==
    IF k > Len(eq) THEN 0 ELSE DailyReturn(eq, k) + SumReturns(eq, k + 1)

\* dailyReturns.reduce((sum, ret) => sum + Math.pow(ret - avgReturn, 2), 0)
RECURSIVE SumSquares(_, _, _)
SumSquares(eq, k, avgReturn) ==
    IF k > Len(eq) THEN 0
    ELSE (DailyReturn(eq, k) - avgReturn) * (DailyReturn(eq, k) - avgReturn)
         + SumSquares(eq, k + 1, avgReturn)

\* Math.sqrt, rounded down: the r in lo..hi-1 with r * r <= v < (r+1) * (r+1)
RECURSIVE SqrtBetween(_, _, _)
SqrtBetween(v, lo, hi) ==
    IF hi - lo <= 1 THEN lo
    ELSE LET mid == (lo + hi) \div 2
         IN IF mid * mid <= v THEN SqrtBetween(v, mid, hi)
            ELSE SqrtBetween(v, lo, mid)

Sqrt(v) == SqrtBetween(v, 0, 46341)

\* the ratio without the stdDev > 0 test: x / 0 is not a number to report
SharpeRatio_NoGuard(avgReturn, stdDev) ==
    IF stdDev = 0 THEN NaN ELSE Num((avgReturn * 158700) \div stdDev)

\* stdDev > 0 ? (avgReturn / stdDev) * Math.sqrt(252) : 0, in 1/100; stdDev
\* in 1/1000000
SharpeRatio(avgReturn, stdDev) ==
    IF stdDev > 0 THEN Num((avgReturn * 158700) \div stdDev) ELSE Num(0)

\* the standard deviation of the daily returns, in 1/1000000; no daily
\* return at all gives NaN for the average and the deviation, and NaN > 0 is
\* false: 0 stands for it
StdDevOf(eq) ==
    LET n == Len(eq) - 1
    IN IF n <= 0 THEN 0
       ELSE Sqrt((SumSquares(eq, 2, SumReturns(eq, 2) \div n) * 10000)
                 \div n)

SharpeOf(eq) ==
    LET n == Len(eq) - 1
    IN SharpeRatio(IF n <= 0 THEN 0 ELSE SumReturns(eq, 2) \div n,
                   StdDevOf(eq))

\* ---- the performance block: totalReturn in 1/100 of a percent
PerformanceOf(eq, trs, initialCapital) ==
    [totalReturn |-> ((eq[Len(eq)] - initialCapital) * 10000)
                        \div initialCapital,
     maxDrawdown |-> MaxDrawdownOf(eq),
     sharpeRatio |-> SharpeOf(eq),
     winRate |-> WinRateOf(trs),
     tradeCount |-> Len(trs),
     finalEquity |-> eq[Len(eq)]]

\* finally { this.isRunning = false }, skipped
AfterFinally_Skipped(running) == running

\* finally { this.isRunning = false }
AfterFinally(running) == FALSE

\* ---- the loop is over: the metrics are computed, updateBacktestResults
\*      stores the result and the finally block clears isRunning; the
\*      locals of generateMockBacktestResult are gone with its return
runBacktestFinish ==
    /\ view = "backtest" /\ pc = "loop" /\ i = days
    /\ performanceMetrics' =
           PerformanceOf(equity, trades, backtestParams.initialCapital)
    /\ tradeRecords' = trades
    /\ backtestData' = [dates |-> dates, prices |-> prices,
                        signals |-> signals, equity |-> equity]
    /\ isRunning' = AfterFinally(isRunning)
    /\ pc' = "idle"
    /\ message' = "backtest_done"
    /\ i' = 0
    /\ dates' = <<>> /\ prices' = <<>> /\ signals' = <<>>
    /\ equity' = <<>> /\ trades' = <<>>
    /\ currentDate' = 0 /\ price' = 0 /\ currentEquity' = 0
    /\ shares' = 0 /\ lastBuyPrice' = 0
    /\ UNCHANGED <<selectedStrategy, smaParams, backtestParams, dateRange>>
    /\ UNCHANGED <<view, tmVars, pgVars>>

\* ---- the loop is over and the result is stored, but updateCharts throws
\*      (setOption on a chart that was never created): the catch block shows
\*      the failure and the finally block clears isRunning.  This happens
\*      only in a page whose charts could not be created: it is a step of
\*      LiveSpec, not of Spec.
runBacktestFail ==
    /\ view = "backtest" /\ pc = "loop" /\ i = days
    /\ performanceMetrics' =
           PerformanceOf(equity, trades, backtestParams.initialCapital)
    /\ tradeRecords' = trades
    /\ backtestData' = [dates |-> dates, prices |-> prices,
                        signals |-> signals, equity |-> equity]
    /\ isRunning' = AfterFinally(isRunning)
    /\ pc' = "idle"
    /\ message' = "backtest_failed"
    /\ i' = 0
    /\ dates' = <<>> /\ prices' = <<>> /\ signals' = <<>>
    /\ equity' = <<>> /\ trades' = <<>>
    /\ currentDate' = 0 /\ price' = 0 /\ currentEquity' = 0
    /\ shares' = 0 /\ lastBuyPrice' = 0
    /\ UNCHANGED <<selectedStrategy, smaParams, backtestParams, dateRange>>
    /\ UNCHANGED <<view, tmVars, pgVars>>

\* the state of a freshly created StrategyBacktest (data() and mounted())
InitBacktest ==
    /\ selectedStrategy = "sma"
    /\ smaParams = DefaultSma
    /\ backtestParams = DefaultParams
    /\ dateRange = <<5, 370>>
    /\ isRunning = FALSE
    /\ performanceMetrics = EmptyMetrics
    /\ tradeRecords = <<>>
    /\ backtestData = EmptyData
    /\ pc = "idle"
    /\ i = 0
    /\ dates = <<>> /\ prices = <<>> /\ signals = <<>>
    /\ equity = <<>> /\ trades = <<>>
    /\ currentDate = 0 /\ price = 0 /\ currentEquity = 0
    /\ shares = 0 /\ lastBuyPrice = 0

\* ======================================================================
\*            DataCollection in unnamed/part_009  (view "collect")
\* ======================================================================
\* ---- what the user can type into collectionForm.stockCode, after
\*      split(',') / trim / filter
StockLists == {<<"600519">>, <<"600519", "000001">>}

\* ---- what one POST /api/data/collect can end with: response.data.success
\*      truthy, or anything else (success false, a rejected request)
Outcomes == {"success", "failure"}

\* ---- Math.random() * 5 of the progress timer, in whole percent
ProgressSteps == {4}

Min(a, b) == IF a <= b THEN a ELSE b

\* the loop of run r has not reached the end of its for statement
Running(ls, r) == ls[r].i <= Len(ls[r].stockCodes)

\* number of POST /api/data/collect requests sent so far by the loops ls
RECURSIVE RequestsSent(_)
RequestsSent(ls) ==
    IF ls = <<>> THEN 0
    ELSE Min(Head(ls).i, Len(Head(ls).stockCodes)) + RequestsSent(Tail(ls))

\* ---- stopProgressSimulation: clearInterval and collectionTimer = null
stopProgressSimulation(timer) == 0

\* ---- the click on the start button (disabled while collecting): the
\*      state is reset, the progress timer of this run replaces the old one
\*      and the loop runs up to its first await
startCollection(codes) ==
    /\ view = "collect" /\ ~stopDialog
    /\ ~collecting
    /\ Len(loops) < MaxRuns
    /\ collecting' = TRUE
    /\ collectionProgress' = 0
    /\ collectionResult' = "null"
    /\ collectedStocks' = <<>>
    /\ collectionTimer' = Len(loops) + 1
    /\ loops' = Append(loops, [stockCodes |-> codes, i |-> 1])
    /\ UNCHANGED stopDialog
    /\ UNCHANGED <<view, message, tmVars, btVars, auVars, ncVars, umVars>>

\* ---- the end of startCollection: collectionResult = {success: true, ...},
\*      finally { stopProgressSimulation(); collecting = false }
LoopEnd(timer) ==
    [collectionResult |-> "success",
     collectionTimer |-> stopProgressSimulation(timer),
     collecting |-> FALSE]

\* ---- the awaited request of run r is answered: the loop resumes, pushes
\*      the code on success and either sends the next request or ends
collectResponse(r, outcome) ==
    /\ view = "collect"
    /\ r \in 1..Len(loops) /\ Running(loops, r)
    /\ LET l == loops[r]
           end == LoopEnd(collectionTimer)
       IN /\ collectedStocks' =
                 IF outcome = "success"
                 THEN Append(collectedStocks, l.stockCodes[l.i])
                 ELSE collectedStocks
          /\ loops' = [loops EXCEPT ![r].i = l.i + 1]
          /\ IF l.i < Len(l.stockCodes)
             THEN UNCHANGED <<collectionResult, collectionTimer, collecting,
                              message>>
             ELSE /\ collectionResult' = end.collectionResult
                  /\ collectionTimer' = end.collectionTimer
                  /\ collecting' = end.collecting
                  /\ message' = "collect_done"
    /\ UNCHANGED <<collectionProgress, stopDialog>>
    /\ UNCHANGED <<view, tmVars, btVars, auVars, ncVars, umVars>>

\* ---- the click on the stop button (disabled unless collecting)
stopCollectionAsk ==
    /\ view = "collect" /\ ~stopDialog
    /\ collecting
    /\ stopDialog' = TRUE
    /\ UNCHANGED <<collecting, collectionProgress, collectionResult,
                   collectedStocks, collectionTimer, loops>>
    /\ UNCHANGED <<view, message, tmVars, btVars, auVars, ncVars, umVars>>

\* the user confirms the stop
stopCollectionConfirm ==
    /\ view = "collect" /\ stopDialog
    /\ collectionTimer' = stopProgressSimulation(collectionTimer)
    /\ collecting' = FALSE
    /\ collectionResult' = "interrupted"
    /\ message' = "collect_stopped"
    /\ stopDialog' = FALSE
    /\ UNCHANGED <<collectionProgress, collectedStocks, loops>>
    /\ UNCHANGED <<view, tmVars, btVars, auVars, ncVars, umVars>>

\* the user dismisses the box
stopCollectionCancel ==
    /\ view = "collect" /\ stopDialog
    /\ stopDialog' = FALSE
    /\ UNCHANGED <<collecting, collectionProgress, collectionResult,
                   collectedStocks, collectionTimer, loops>>
    /\ UNCHANGED <<view, message, tmVars, btVars, auVars, ncVars, umVars>>

\* ---- resetForm (the button is never disabled)
resetForm ==
    /\ view = "collect" /\ ~stopDialog
    /\ collectionResult' = "null"
    /\ collectedStocks' = <<>>
    /\ UNCHANGED <<collecting, collectionProgress, collectionTimer, loops,
                   stopDialog>>
    /\ UNCHANGED <<view, message, tmVars, btVars, auVars, ncVars, umVars>>

\* ---- one tick of the interval set by simulateProgress for the run that
\*      collectionTimer names; progress is the local of that closure and
\*      collectionProgress its floor
progressTick(step) ==
    /\ view = "collect"
    /\ collectionTimer # 0
    /\ collectionProgress < 100
    /\ LET totalStocks == Len(loops[collectionTimer].stockCodes)
           realProgress == (Len(collectedStocks) * 100) \div totalStocks
       IN collectionProgress' =
              Min(Min(collectionProgress + step, realProgress + 10), 100)
    /\ UNCHANGED <<collecting, collectionResult, collectedStocks,
                   collectionTimer, loops, stopDialog>>
    /\ UNCHANGED <<view, message, tmVars, btVars, auVars, ncVars, umVars>>

\* ---- data() of DataCollection
InitCollect ==
    /\ collecting = FALSE
    /\ collectionProgress = 0
    /\ collectionResult = "null"
    /\ collectedStocks = <<>>
    /\ collectionTimer = 0
    /\ loops = <<>>
    /\ stopDialog = FALSE

\* ======================================================================
\*   Login (part_006), Header (part_000), Profile (part_007): view "auth"
\* ======================================================================
\* localStorage.getItem of a key that is not stored
Null == "null"

\* ---- the click on the login button of the login page
handleLogin ==
    /\ view = "auth" /\ route = "login"
    /\ "login" \notin pending
    /\ pending' = pending \cup {"login"}
    /\ UNCHANGED <<token, userInfo, route, logoutDialog>>
    /\ UNCHANGED <<view, message, tmVars, btVars, dcVars, ncVars, umVars>>

\* POST /api/user/login is answered; success is result.success
loginResponse(success) ==
    /\ view = "auth" /\ "login" \in pending
    /\ pending' = pending \ {"login"}
    /\ IF success
       THEN /\ token' = "token"
            /\ userInfo' = "full"
            /\ route' = "app"
            /\ message' = "login_ok"
       ELSE /\ message' = "login_failed"
            /\ UNCHANGED <<token, userInfo, route>>
    /\ UNCHANGED logoutDialog
    /\ UNCHANGED <<view, tmVars, btVars, dcVars, ncVars, umVars>>

\* ---- handleCommand('logout') of the header
handleCommandAsk ==
    /\ view = "auth" /\ route = "app" /\ ~logoutDialog
    /\ logoutDialog' = TRUE
    /\ UNCHANGED <<token, userInfo, route, pending>>
    /\ UNCHANGED <<view, message, tmVars, btVars, dcVars, ncVars, umVars>>

\* the user confirms: both keys are removed
handleCommandConfirm ==
    /\ view = "auth" /\ logoutDialog
    /\ token' = Null
    /\ userInfo' = Null
    /\ route' = "login"
    /\ message' = "logout_ok"
    /\ logoutDialog' = FALSE
    /\ UNCHANGED pending
    /\ UNCHANGED <<view, tmVars, btVars, dcVars, ncVars, umVars>>

handleCommandCancel ==
    /\ view = "auth" /\ logoutDialog
    /\ logoutDialog' = FALSE
    /\ UNCHANGED <<token, userInfo, route, pending>>
    /\ UNCHANGED <<view, message, tmVars, btVars, dcVars, ncVars, umVars>>

\* ---- handleUpdate, the stored object after a successful answer:
\*      {...JSON.parse(getItem('userInfo') || '{}'), username, email, phone,
\*      updated_at}
MergeProfile(stored) == IF stored = Null THEN "partial" ELSE stored

\* ---- the click on the save button of the profile page
handleUpdate ==
    /\ view = "auth" /\ route = "app" /\ ~logoutDialog
    /\ "update" \notin pending
    /\ pending' = pending \cup {"update"}
    /\ UNCHANGED <<token, userInfo, route, logoutDialog>>
    /\ UNCHANGED <<view, message, tmVars, btVars, dcVars, ncVars, umVars>>

\* PUT /api/user/profile is answered; success is response.data.success
updateResponse(success) ==
    /\ view = "auth" /\ "update" \in pending
    /\ pending' = pending \ {"update"}
    /\ IF success
       THEN /\ userInfo' = MergeProfile(userInfo)
            /\ message' = "profile_saved"
       ELSE /\ message' = "profile_failed"
            /\ UNCHANGED userInfo
    /\ UNCHANGED <<token, route, logoutDialog>>
    /\ UNCHANGED <<view, tmVars, btVars, dcVars, ncVars, umVars>>

\* ---- the click on the change-password button of the profile page
handlePasswordUpdate ==
    /\ view = "auth" /\ route = "app" /\ ~logoutDialog
    /\ "password" \notin pending
    /\ pending' = pending \cup {"password"}
    /\ UNCHANGED <<token, userInfo, route, logoutDialog>>
    /\ UNCHANGED <<view, message, tmVars, btVars, dcVars, ncVars, umVars>>

\* POST /api/user/change-password is answered; success is result.success
passwordResponse(success) ==
    /\ view = "auth" /\ "password" \in pending
    /\ pending' = pending \ {"password"}
    /\ IF success
       THEN /\ token' = Null
            /\ userInfo' = Null
            /\ route' = "login"
            /\ message' = "password_changed"
       ELSE /\ message' = "password_failed"
            /\ UNCHANGED <<token, userInfo, route>>
    /\ UNCHANGED logoutDialog
    /\ UNCHANGED <<view, tmVars, btVars, dcVars, ncVars, umVars>>

\* ---- nobody is logged in and the login page is shown
InitAuth ==
    /\ token = Null
    /\ userInfo = Null
    /\ route = "login"
    /\ pending = {}
    /\ logoutDialog = FALSE

\* ======================================================================
\*   NotificationCenter (part_002): view "notify";
\*   NotificationCenterPage.vue: view "notifypage";
\*   the notification tab of Visualization.vue: view "visual"
\* ======================================================================
\* ---- generateMockNotifications of the notification center; data() of
\*      Visualization.vue starts with the same four entries
MockNotifications ==
    << [id |-> 1, read |-> FALSE], [id |-> 2, read |-> FALSE],
       [id |-> 3, read |-> TRUE], [id |-> 4, read |-> TRUE] >>

\* ---- what GET /api/notifications/latest can answer in new_notifications:
\*      ids that are new, ids already listed and ids repeated in the answer
PollResponses ==
    { << [id |-> 5, read |-> FALSE] >>,
      << [id |-> 5, read |-> FALSE], [id |-> 5, read |-> FALSE] >>,
      << [id |-> 2, read |-> FALSE], [id |-> 6, read |-> FALSE],
         [id |-> 6, read |-> FALSE] >> }

\* ---- what the page can load: its mock list (20 entries in the source,
\*      2 here) with the read flags drawn at random
PageLists ==
    { << [id |-> 1, read |-> r1], [id |-> 2, read |-> r2] >> :
         r1 \in BOOLEAN, r2 \in BOOLEAN }

\* the ids of the rows that are clicked
NotificationIds == {1, 2, 5}

\* ---- Date.now() as the id of the n-th mock notification
MockId(n) == 1000 + n

\* ---- computed unreadCount
RECURSIVE unreadCount(_)
unreadCount(ns) ==
    IF ns = <<>> THEN 0
    ELSE (IF Head(ns).read THEN 0 ELSE 1) + unreadCount(Tail(ns))

\* a list in which no id is ever found
IsListed_Never(ns, id) == FALSE

\* ---- this.notifications.find(n => n.id === id)
IsListed(ns, id) == \E k \in 1..Len(ns) : ns[k].id = id

\* find(...) and read = true on the entry found: the first with that id
MarkRead(ns, id) ==
    [k \in 1..Len(ns) |->
        IF ns[k].id = id /\ \A j \in 1..(k - 1) : ns[j].id # id
        THEN [ns[k] EXCEPT !.read = TRUE] ELSE ns[k]]

\* forEach(notification => notification.read = true)
MarkAll(ns) == [k \in 1..Len(ns) |-> [ns[k] EXCEPT !.read = TRUE]]

\* ---- showNotification for the notification n, on the state st of the
\*      center: the popup shows n and a new 5 second timer is set
showNotification(n, st) ==
    [st EXCEPT !.notificationPopup = n.id,
               !.showNotificationPopup = TRUE,
               !.timers = Append(@, n.id)]

\* ---- the forEach of checkForNewNotifications over new_notifications
RECURSIVE AddNew(_, _)
AddNew(news, st) ==
    IF news = <<>> THEN st
    ELSE LET n == Head(news)
         IN AddNew(Tail(news),
                   IF IsListed(st.notifications, n.id) THEN st
                   ELSE showNotification(n,
                            [st EXCEPT !.notifications = <<n>> \o @]))

\* the fields of the center written by a poll
CenterState ==
    [notifications |-> notifications,
     notificationPopup |-> notificationPopup,
     showNotificationPopup |-> showNotificationPopup,
     timers |-> timers]

\* ---- loadNotifications of mounted(): the request fails and the mock
\*      list is installed
loadNotifications ==
    /\ view = "notify" /\ notifications = <<>>
    /\ notifications' = MockNotifications
    /\ UNCHANGED <<showNotificationPopup, notificationPopup, timers, requests,
                   mocks>>
    /\ UNCHANGED <<view, message, tmVars, btVars, dcVars, auVars, umVars>>

\* ---- checkForNewNotifications (the same in the center and in
\*      Visualization.vue), the poll is answered with success and the
\*      list news
checkForNewNotifications(news) ==
    /\ view \in {"notify", "visual"}
    /\ Len(timers) < MaxTimers
    /\ LET st == AddNew(news, CenterState)
       IN /\ notifications' = st.notifications
          /\ notificationPopup' = st.notificationPopup
          /\ showNotificationPopup' = st.showNotificationPopup
          /\ timers' = st.timers
    /\ UNCHANGED <<requests, mocks>>
    /\ UNCHANGED <<view, message, tmVars, btVars, dcVars, auVars, umVars>>

\* ---- checkForNewNotifications, the poll fails and Math.random() > 0.7:
\*      addMockNotification
addMockNotification ==
    /\ view = "notify"
    /\ mocks < MaxMocks
    /\ LET n == [id |-> MockId(mocks + 1), read |-> FALSE]
           st == showNotification(n,
                     [CenterState EXCEPT !.notifications = <<n>> \o @])
       IN /\ notifications' = st.notifications
          /\ notificationPopup' = st.notificationPopup
          /\ showNotificationPopup' = st.showNotificationPopup
          /\ timers' = st.timers
    /\ mocks' = mocks + 1
    /\ UNCHANGED requests
    /\ UNCHANGED <<view, message, tmVars, btVars, dcVars, auVars, umVars>>

\* ---- saveNotificationSettings of Visualization.vue: a popup that tells
\*      that the settings are saved (id 0 stands for its title)
saveNotificationSettings ==
    /\ view = "visual"
    /\ Len(timers) < MaxTimers
    /\ LET st == showNotification([id |-> 0], CenterState)
       IN /\ notificationPopup' = st.notificationPopup
          /\ showNotificationPopup' = st.showNotificationPopup
          /\ timers' = st.timers
    /\ message' = "settings_saved"
    /\ UNCHANGED <<notifications, requests, mocks>>
    /\ UNCHANGED <<view, tmVars, btVars, dcVars, auVars, umVars>>

\* ---- the oldest timer set by showNotification fires
popupTimeout ==
    /\ view \in {"notify", "visual"}
    /\ timers # <<>>
    /\ showNotificationPopup' = FALSE
    /\ timers' = Tail(timers)
    /\ UNCHANGED <<notifications, notificationPopup, requests, mocks>>
    /\ UNCHANGED <<view, message, tmVars, btVars, dcVars, auVars, umVars>>

\* ---- markAsRead of the center: the flag is set, then the request is sent
markAsRead(id) ==
    /\ view = "notify"
    /\ \E k \in 1..Len(notifications) :
          notifications[k].id = id /\ ~notifications[k].read
    /\ [kind |-> "one", id |-> id] \notin requests
    /\ notifications' = MarkRead(notifications, id)
    /\ requests' = requests \cup {[kind |-> "one", id |-> id]}
    /\ UNCHANGED <<showNotificationPopup, notificationPopup, timers, mocks>>
    /\ UNCHANGED <<view, message, tmVars, btVars, dcVars, auVars, umVars>>

\* its request is answered: nothing follows the await, the catch logs
markAsReadResponse(id, ok) ==
    /\ view = "notify"
    /\ [kind |-> "one", id |-> id] \in requests
    /\ requests' = requests \ {[kind |-> "one", id |-> id]}
    /\ message' = IF ok THEN "mark_sent" ELSE "mark_failed"
    /\ UNCHANGED <<notifications, showNotificationPopup, notificationPopup,
                   timers, mocks>>
    /\ UNCHANGED <<view, tmVars, btVars, dcVars, auVars, umVars>>

\* ---- markAsRead of the page (button of an unread row): the request is
\*      sent
pageMarkAsRead(id) ==
    /\ view = "notifypage"
    /\ \E k \in 1..Len(notifications) :
          notifications[k].id = id /\ ~notifications[k].read
    /\ [kind |-> "one", id |-> id] \notin requests
    /\ requests' = requests \cup {[kind |-> "one", id |-> id]}
    /\ UNCHANGED <<notifications, showNotificationPopup, notificationPopup,
                   timers, mocks>>
    /\ UNCHANGED <<view, message, tmVars, btVars, dcVars, auVars, umVars>>

\* its request is answered: the flag is set after a success
pageMarkAsReadResponse(id, ok) ==
    /\ view = "notifypage"
    /\ [kind |-> "one", id |-> id] \in requests
    /\ requests' = requests \ {[kind |-> "one", id |-> id]}
    /\ notifications' = IF ok THEN MarkRead(notifications, id)
                        ELSE notifications
    /\ message' = IF ok THEN "marked_read" ELSE "mark_failed"
    /\ UNCHANGED <<showNotificationPopup, notificationPopup, timers, mocks>>
    /\ UNCHANGED <<view, tmVars, btVars, dcVars, auVars, umVars>>

\* ---- markAllAsRead, the same in the center and in the page: the request
\*      is sent
markAllAsRead ==
    /\ view \in {"notify", "notifypage"}
    /\ notifications # <<>>
    /\ [kind |-> "all", id |-> 0] \notin requests
    /\ requests' = requests \cup {[kind |-> "all", id |-> 0]}
    /\ UNCHANGED <<notifications, showNotificationPopup, notificationPopup,
                   timers, mocks>>
    /\ UNCHANGED <<view, message, tmVars, btVars, dcVars, auVars, umVars>>

\* its request is answered: every flag is set after a success
markAllAsReadResponse(ok) ==
    /\ view \in {"notify", "notifypage"}
    /\ [kind |-> "all", id |-> 0] \in requests
    /\ requests' = requests \ {[kind |-> "all", id |-> 0]}
    /\ notifications' = IF ok THEN MarkAll(notifications) ELSE notifications
    /\ message' = IF ok THEN "all_marked_read" ELSE "mark_failed"
    /\ UNCHANGED <<showNotificationPopup, notificationPopup, timers, mocks>>
    /\ UNCHANGED <<view, tmVars, btVars, dcVars, auVars, umVars>>

\* ---- loadNotifications of the page (mounted, refresh button)
pageLoadNotifications(list) ==
    /\ view = "notifypage"
    /\ notifications' = list
    /\ UNCHANGED <<showNotificationPopup, notificationPopup, timers, requests,
                   mocks>>
    /\ UNCHANGED <<view, message, tmVars, btVars, dcVars, auVars, umVars>>

\* ---- data() of the three components
InitNotify ==
    /\ notifications = IF view = "visual" THEN MockNotifications ELSE <<>>
    /\ showNotificationPopup = FALSE
    /\ notificationPopup = 0
    /\ timers = <<>>
    /\ requests = {}
    /\ mocks = 0

\* ======================================================================
\*                 UserManagement.vue  (view "users")
\* ======================================================================
\* ---- what GET /api/users can answer in result.users: the ids as JSON
\*      numbers or as JSON strings; v is the text of the value
UserLists ==
    { << [type |-> "number", v |-> "1"], [type |-> "number", v |-> "2"] >>,
      << [type |-> "string", v |-> "1"], [type |-> "string", v |-> "2"] >> }

NoUser == [type |-> "undefined", v |-> ""]

\* ---- userId === 1, the test of confirmDeleteUser and of the :disabled
\*      of the delete button: same type and same value
IsAdministrator(userId) == userId = [type |-> "number", v |-> "1"]

\* ---- the template literal `/api/users/${userId}/delete`: the id as text
DeleteUrl(userId) == <<"/api/users/", userId.v, "/delete">>

\* ---- loadUserList is answered with success
loadUserList(list) ==
    /\ view = "users" /\ deleteDialog = NoUser
    /\ users' = list
    /\ UNCHANGED <<deleteDialog, deleteRequests>>
    /\ UNCHANGED <<view, message, tmVars, btVars, dcVars, auVars, ncVars>>

\* ---- confirmDeleteUser(scope.row.id) for row k: refused for the
\*      administrator, else the $confirm box opens
confirmDeleteUser(k) ==
    /\ view = "users" /\ deleteDialog = NoUser
    /\ k \in 1..Len(users)
    /\ IF IsAdministrator(users[k])
       THEN /\ message' = "admin_not_deletable"
            /\ UNCHANGED deleteDialog
       ELSE /\ deleteDialog' = users[k]
            /\ UNCHANGED message
    /\ UNCHANGED <<users, deleteRequests>>
    /\ UNCHANGED <<view, tmVars, btVars, dcVars, auVars, ncVars>>

\* ---- the user confirms: deleteUser sends the DELETE request
deleteUser ==
    /\ view = "users" /\ deleteDialog # NoUser
    /\ deleteRequests' = deleteRequests \cup {DeleteUrl(deleteDialog)}
    /\ deleteDialog' = NoUser
    /\ UNCHANGED users
    /\ UNCHANGED <<view, message, tmVars, btVars, dcVars, auVars, ncVars>>

\* the user dismisses the box
cancelDeleteUser ==
    /\ view = "users" /\ deleteDialog # NoUser
    /\ deleteDialog' = NoUser
    /\ message' = "delete_cancelled"
    /\ UNCHANGED <<users, deleteRequests>>
    /\ UNCHANGED <<view, tmVars, btVars, dcVars, auVars, ncVars>>

\* ---- the DELETE request is answered
deleteUserResponse(url, success) ==
    /\ view = "users"
    /\ url \in deleteRequests
    /\ deleteRequests' = deleteRequests \ {url}
    /\ message' = IF success THEN "user_deleted" ELSE "delete_failed"
    /\ UNCHANGED <<users, deleteDialog>>
    /\ UNCHANGED <<view, tmVars, btVars, dcVars, auVars, ncVars>>

\* ---- data() of UserManagement
InitUsers ==
    /\ users = <<>>
    /\ deleteDialog = NoUser
    /\ deleteRequests = {}

\* ---- the pages as created
PageViews == {"collect", "auth", "notify", "notifypage", "visual", "users"}

InitPages ==
    /\ InitCollect
    /\ InitAuth
    /\ InitNotify
    /\ InitUsers

\* ======================================================================
\*                            the whole model
\* ======================================================================
\* The router has mounted one of the two views.  The drawdown threshold is
\* the one kept by the risk view; the backtest view never reads it.
Init ==
    /\ view \in {"trade", "backtest"}
    /\ InitTrade
    /\ InitBacktest
    /\ InitPages
    /\ thresholdForm \in IF view = "trade" THEN {DefaultThreshold}
                        ELSE Thresholds
    /\ message = ""

Next ==
    \/ \E code \in Codes \cup {""}, px \in Prices, qty \in Quantities :
          \/ buyStockInvalid(code, px, qty)
          \/ buyStockInsufficient(code, px, qty)
          \/ buyStockAsk(code, px, qty)
          \/ sellPositionInvalid(code, px, qty)
          \/ sellPositionNotHeld(code, px, qty)
          \/ sellPositionOverSell(code, px, qty)
          \/ sellPositionAsk(code, px, qty)
    \/ buyStockConfirm
    \/ buyStockCancel
    \/ sellPositionConfirm
    \/ sellPositionCancel
    \/ \E resp \in ServerResponses : loadAllDataSuccess(resp)
    \/ loadAllDataFailure
    \/ \E st \in Strategies : selectStrategy(st)
    \/ \E sp \in SmaChoices : setSmaParams(sp)
    \/ \E cap \in Capitals, fee \in Fees : setBacktestParams(cap, fee)
    \/ \E r \in DateRanges : setDateRange(r)
    \/ resetParams
    \/ runBacktestRejected
    \/ runBacktestStart
    \/ \E change \in Changes, coin \in BOOLEAN : generateBar(change, coin)
    \/ runBacktestFinish

Spec == Init /\ [][Next]_vars

\* The backtest view alone, with the parameters as mounted, the date range
\* as the only input that is edited and the results on display cleared
\* (resetParams) before the next run; the loop reads none of them.
\* runBacktest is one synchronous call: once started, the loop goes on bar
\* after bar and the call returns or throws.
InitRun == Init /\ view = "backtest"

NextRun ==
    \/ \E r \in DateRanges : setDateRange(r)
    \/ resetParams
    \/ runBacktestRejected
    \/ runBacktestStart /\ backtestData = EmptyData
    \/ \E change \in Changes, coin \in BOOLEAN : generateBar(change, coin)
    \/ runBacktestFinish
    \/ runBacktestFail

\* The trade view with the risk warning table in use.  handleWarning writes
\* riskWarnings and activeWarnings only, which no trade reads.
InitWarn == Init /\ view = "trade"

NextWarn ==
    \/ \E code \in Codes, px \in Prices, qty \in Quantities :
          \/ buyStockAsk(code, px, qty)
          \/ sellPositionAsk(code, px, qty)
    \/ buyStockConfirm
    \/ buyStockCancel
    \/ sellPositionConfirm
    \/ sellPositionCancel
    \/ \E k \in 1..MaxWarnings : handleWarningAsk(k)
    \/ handleWarningConfirm
    \/ handleWarningCancel
    \/ \E resp \in ServerResponses : loadAllDataSuccess(resp)
    \/ loadAllDataFailure

WarnSpec == InitWarn /\ [][NextWarn]_vars

\* The remaining pages, one of them mounted: every other view keeps the
\* state it was created with.
InitPagesSpec ==
    /\ view \in PageViews
    /\ InitTrade
    /\ InitBacktest
    /\ InitPages
    /\ thresholdForm = DefaultThreshold
    /\ message = ""

NextPages ==
    \/ \E codes \in StockLists : startCollection(codes)
    \/ \E r \in 1..MaxRuns, outcome \in Outcomes : collectResponse(r, outcome)
    \/ stopCollectionAsk
    \/ stopCollectionConfirm
    \/ stopCollectionCancel
    \/ resetForm
    \/ \E step \in ProgressSteps : progressTick(step)
    \/ handleLogin
    \/ \E success \in BOOLEAN : loginResponse(success)
    \/ handleCommandAsk
    \/ handleCommandConfirm
    \/ handleCommandCancel
    \/ handleUpdate
    \/ \E success \in BOOLEAN : updateResponse(success)
    \/ handlePasswordUpdate
    \/ \E success \in BOOLEAN : passwordResponse(success)
    \/ loadNotifications
    \/ \E news \in PollResponses : checkForNewNotifications(news)
    \/ addMockNotification
    \/ saveNotificationSettings
    \/ popupTimeout
    \/ \E id \in NotificationIds, ok \in BOOLEAN :
          \/ markAsRead(id)
          \/ markAsReadResponse(id, ok)
          \/ pageMarkAsRead(id)
          \/ pageMarkAsReadResponse(id, ok)
    \/ markAllAsRead
    \/ \E ok \in BOOLEAN : markAllAsReadResponse(ok)
    \/ \E list \in PageLists : pageLoadNotifications(list)
    \/ \E list \in UserLists : loadUserList(list)
    \/ \E k \in 1..MaxUsers : confirmDeleteUser(k)
    \/ deleteUser
    \/ cancelDeleteUser
    \/ \E url \in deleteRequests, success \in BOOLEAN :
          deleteUserResponse(url, success)

PagesSpec == InitPagesSpec /\ [][NextPages]_vars

LiveSpec ==
    /\ InitRun /\ [][NextRun]_vars
    /\ WF_vars(\E change \in Changes, coin \in BOOLEAN :
                  generateBar(change, coin))
    /\ WF_vars(runBacktestFinish \/ runBacktestFail)

\* ======================================================================
\*                              properties
\* ======================================================================
\* the quantity held of the first position with this symbol
HeldQuantity(ps, code) == ps[FindIndex(ps, code)].quantity

\* the step of generateMockBacktestResult that buys / that sells
BacktestBuyStep ==
    /\ pc = "loop" /\ Len(signals') = Len(signals) + 1
    /\ signals'[Len(signals')] = 1

BacktestSellStep ==
    /\ pc = "loop" /\ Len(signals') = Len(signals) + 1
    /\ signals'[Len(signals')] = -1

\* the last sample of an equity curve
LastOf(eq) == eq[Len(eq)]

\* the highest sample of a non-empty equity curve
PeakOf(eq) == CHOOSE x \in {eq[k] : k \in 1..Len(eq)} :
                 \A k \in 1..Len(eq) : eq[k] <= x

\* the drawdown of the last sample from the running peak exceeds thr
\* (thr in 1/10000)
DrawdownExceeds(eq, thr) ==
    (PeakOf(eq) - LastOf(eq)) * 10000 > thr * PeakOf(eq)

\* C1: after every executed buy the cash balance is not negative:
\* availableFunds and accountBalance after a confirmed buyStock, and
\* currentEquity after a buy of the backtest loop.
C1_CashNotNegativeAfterBuy ==
    [][ /\ buyStockConfirm =>
              (availableFunds' >= 0 /\ accountBalance' >= 0)
        /\ BacktestBuyStep => currentEquity' >= 0 ]_vars

C3_QuantitiesNeverNegative ==
    /\ \A k \in 1..Len(positions) : positions[k].quantity >= 0
    /\ shares >= 0

\* C4 as claimed: a sell order for more than the held quantity is not refused
\* but goes on with the quantity clipped to the held amount.
C4_OverSellClipped ==
    [][ \A code \in Codes, px \in Prices, qty \in Quantities :
           ( /\ sellPosition(code, px, qty)
             /\ FindIndex(positions, code) # 0
             /\ qty > HeldQuantity(positions, code) )
           => ( /\ dialog'.kind = "sell"
                /\ sellForm'.quantity = HeldQuantity(positions, code) ) ]_vars

\* C4 amended: a sell order for more than the held quantity is refused, which
\* is not fatal: positions, trade history and cash stay as they are, the
\* message 'sell quantity exceeds the held quantity' is shown and no confirm
\* box opens.
C4_OverSellRejected ==
    [][ \A code \in Codes, px \in Prices, qty \in Quantities :
           ( /\ sellPosition(code, px, qty)
             /\ FindIndex(positions, code) # 0
             /\ qty > HeldQuantity(positions, code) )
           => ( /\ UNCHANGED <<positions, totalPositionValue, tradeHistory,
                               accountBalance, availableFunds>>
                /\ dialog' = NoDialog
                /\ message' = "sell_exceeds_position" ) ]_vars

\* an order for more than the held quantity has just been refused
C4_Witness ==
    /\ view = "trade" /\ message = "sell_exceeds_position"
    /\ FindIndex(positions, sellForm.stockCode) # 0
    /\ sellForm.quantity > HeldQuantity(positions, sellForm.stockCode)
    /\ dialog = NoDialog

\* C5: every trade of the backtest run is filled on the bar after the bar
\* whose signal caused it.
C5_FillAtNextBar ==
    \A k \in 1..Len(trades) :
       \E j \in 1..Len(signals) :
          /\ signals[j] # 0
          /\ j + 1 <= Len(dates)
          /\ dates[j + 1] = trades[k].date

\* C6: the commission is notional x rate on both sides: a confirmed buy of
\* notional n lowers accountBalance and availableFunds by n + n/1000, a
\* confirmed sell raises them by n - n/1000; a buy of the backtest loop
\* lowers currentEquity by n + n*fee/100 and a sell raises it by
\* n - n*fee/100.
C6_CommissionBothSides ==
    [][ /\ buyStockConfirm =>
              LET n == buyForm.quantity * buyForm.price
              IN /\ accountBalance' = accountBalance - (n + n \div 1000)
                 /\ availableFunds' = availableFunds - (n + n \div 1000)
                 /\ tradeHistory'[1].fee = n \div 1000
        /\ sellPositionConfirm =>
              LET n == sellForm.quantity * sellForm.price
              IN /\ accountBalance' = accountBalance + (n - n \div 1000)
                 /\ availableFunds' = availableFunds + (n - n \div 1000)
                 /\ tradeHistory'[1].fee = n \div 1000
        /\ BacktestBuyStep =>
              LET n == shares' * price'
              IN currentEquity' = currentEquity
                    - (n + (n * backtestParams.transactionFee) \div 10000)
        /\ BacktestSellStep =>
              LET n == shares * price'
              IN currentEquity' = currentEquity
                    + (n - (n * backtestParams.transactionFee) \div 10000)
      ]_vars

\* a sell has just been executed and was charged a fee
C6_Witness ==
    /\ view = "trade" /\ message = "sell_success"
    /\ tradeHistory # <<>>
    /\ tradeHistory[1].side = "sell" /\ tradeHistory[1].fee > 0

\* C7: equity after a buy is equity before the buy minus (notional +
\* commission) and is never negative, equity being what the buy is paid
\* from: accountBalance in buyStock, currentEquity in the backtest loop.
C7_EquityAfterBuy ==
    [][ /\ buyStockConfirm =>
              LET n == buyForm.quantity * buyForm.price
              IN /\ accountBalance' = accountBalance - (n + n \div 1000)
                 /\ accountBalance' >= 0
        /\ BacktestBuyStep =>
              LET n == shares' * price'
              IN /\ currentEquity' = currentEquity
                      - (n + (n * backtestParams.transactionFee) \div 10000)
                 /\ currentEquity' >= 0
                 /\ \A k \in 1..Len(equity') : equity'[k] >= 0 ]_vars

\* C8: once the running drawdown of the equity curve has exceeded the
\* maximum drawdown threshold, all positions are liquidated: one bar after
\* a sample above the threshold no shares are held.
C8_DrawdownForcesLiquidation ==
    ( /\ pc = "loop" /\ Len(equity) >= 2
      /\ DrawdownExceeds(SubSeq(equity, 1, Len(equity) - 1), thresholdForm) )
    => shares = 0

\* C9: no executed buy leaves the positions above the maximum position
\* fraction (90%) of equity: such a buy is vetoed before it changes cash,
\* positions or the trade history.
C9_OverLimitBuyVetoed ==
    [][ buyStockConfirm =>
           ~PositionLimitExceeded(accountBalance', totalPositionValue') ]_vars

\* C10: a configuration with shortPeriod >= longPeriod or a capital that is
\* not positive is rejected before the run: no run with it ever replaces
\* performanceMetrics, tradeRecords or backtestData.
C10_InvalidConfigRejected ==
    [][ ( /\ pc = "loop"
          /\ \/ /\ selectedStrategy = "sma"
                /\ smaParams.shortPeriod >= smaParams.longPeriod
             \/ backtestParams.initialCapital <= 0 )
        => UNCHANGED <<performanceMetrics, tradeRecords, backtestData>> ]_vars

\* C11: two backtest runs with identical inputs produce identical trade logs
\* and equity curves: two runs that have the same parameters and dates and
\* agree on every bar up to bar i - 1 and on the price of bar i agree on the
\* trade log and the equity curve after bar i.
C11_Deterministic ==
    (pc = "loop" /\ i < days) =>
       \A change \in Changes :
          /\ BarStep(change, TRUE).trades = BarStep(change, FALSE).trades
          /\ BarStep(change, TRUE).equity = BarStep(change, FALSE).equity

\* C12: a run whose price series agrees up to bar t with the series of the
\* run before it (same start date, same capital) has the same signals for
\* the bars up to t.
C12_NoLookahead ==
    pc = "loop" =>
       \A t \in 1..Len(signals) :
          ( /\ t <= Len(backtestData.prices)
            /\ backtestData.dates[1] = dates[1]
            /\ backtestData.equity[1] = equity[1]
            /\ SubSeq(prices, 1, t) = SubSeq(backtestData.prices, 1, t) )
          => SubSeq(signals, 1, t) = SubSeq(backtestData.signals, 1, t)

DrawdownAt(eq, k) ==
    ((PeakOf(SubSeq(eq, 1, k)) - eq[k]) * 10000)
       \div PeakOf(SubSeq(eq, 1, k))

\* the largest DrawdownAt over the samples of a non-empty curve
LargestDrawdown(eq) ==
    CHOOSE d \in {DrawdownAt(eq, k) : k \in 1..Len(eq)} :
       \A k \in 1..Len(eq) : DrawdownAt(eq, k) <= d

\* no sample of the curve is below the one before it
NonDecreasing(eq) == \A k \in 2..Len(eq) : eq[k - 1] <= eq[k]

\* C14: the reported maxDrawdown is the maximum over the samples of
\* (running peak - sample) / running peak, in percent, and 0 for an equity
\* curve that never decreases.
C14_MaxDrawdown ==
    backtestData.equity # <<>> =>
       /\ performanceMetrics.maxDrawdown
             = LargestDrawdown(backtestData.equity)
       /\ NonDecreasing(backtestData.equity)
             => performanceMetrics.maxDrawdown = 0

\* a stored curve that rose above its first sample and fell afterwards
C14_Witness ==
    /\ view = "backtest" /\ pc = "idle"
    /\ backtestData.equity # <<>>
    /\ performanceMetrics.maxDrawdown > 0
    /\ PeakOf(backtestData.equity) > backtestData.equity[1]
    /\ LastOf(backtestData.equity) < PeakOf(backtestData.equity)

\* C15: the win rate is the number of trades of the log with pnl > 0 divided
\* by the number of trades of the log (in 1/100 of a percent).
C15_WinRate ==
    (tradeRecords # <<>> /\ ~performanceMetrics.winRate.nan) =>
       performanceMetrics.winRate.v
          = (CountPnl(tradeRecords, 1, 1) * 10000) \div Len(tradeRecords)

\* C16: the win rate is a defined number for every trade log, 0 for the
\* empty one.
C16_WinRateDefined ==
    /\ ~performanceMetrics.winRate.nan
    /\ tradeRecords = <<>> => performanceMetrics.winRate = Num(0)

\* all daily returns of the curve are the same: their deviation is 0
ZeroVolatility(eq) ==
    \A k, l \in 2..Len(eq) : DailyReturn(eq, k) = DailyReturn(eq, l)

\* C17: when the daily returns of the equity curve have zero volatility the
\* Sharpe ratio is 0, and the Sharpe ratio is always a defined number.
C17_SharpeZeroVolatility ==
    /\ ~performanceMetrics.sharpeRatio.nan
    /\ (backtestData.equity # <<>> /\ ZeroVolatility(backtestData.equity))
          => performanceMetrics.sharpeRatio = Num(0)

\* a run without any trade is stored: its equity curve is constant
C17_Witness ==
    /\ view = "backtest" /\ pc = "idle"
    /\ Len(backtestData.equity) = days
    /\ ZeroVolatility(backtestData.equity)
    /\ tradeRecords = <<>>
    /\ performanceMetrics.sharpeRatio = Num(0)

\* xs with one more element at its end
Extends(xs, ys) ==
    Len(ys) = Len(xs) + 1 /\ SubSeq(ys, 1, Len(xs)) = xs

\* C18: one sample per bar, append-only: before bar i is processed dates,
\* prices, signals and equity all have length i, every pass of the loop
\* appends one element to each and changes none, and the stored result has
\* `days` elements in each.
C18_OneSamplePerBar ==
    [][ /\ pc' = "loop" => ( /\ Len(dates') = i' /\ Len(prices') = i'
                            /\ Len(signals') = i' /\ Len(equity') = i' )
        /\ (pc = "loop" /\ pc' = "loop" /\ i' # i)
             => ( /\ i' = i + 1
                  /\ Extends(dates, dates') /\ Extends(prices, prices')
                  /\ Extends(signals, signals')
                  /\ Extends(equity, equity') )
        /\ runBacktestFinish
             => ( /\ Len(backtestData'.dates) = days
                  /\ Len(backtestData'.prices) = days
                  /\ Len(backtestData'.signals) = days
                  /\ Len(backtestData'.equity) = days
                  /\ backtestData'.equity = equity ) ]_vars

\* a run is stored whose bars were partly with and partly without shares
C18_Witness ==
    /\ view = "backtest" /\ pc = "idle"
    /\ Len(backtestData.equity) = days
    /\ Len(backtestData.dates) = days
    /\ \E k \in 1..days : backtestData.signals[k] = 1

\* C19: the trade log is ordered and its records do not change: a pass of
\* the loop leaves trades alone or appends one record, the date of a trade
\* is not before the date of the trade recorded before it, the stored log is
\* the log of the run, and it changes only when a run ends or the results
\* are reset.
C19_TradeLogOrdered ==
    [][ /\ \A k \in 2..Len(trades') : trades'[k - 1].date <= trades'[k].date
        /\ \A k \in 2..Len(tradeRecords') :
              tradeRecords'[k - 1].date <= tradeRecords'[k].date
        /\ (pc = "loop" /\ pc' = "loop")
             => (trades' = trades \/ Extends(trades, trades'))
        /\ runBacktestFinish => tradeRecords' = trades
        /\ tradeRecords' # tradeRecords
             => (runBacktestFinish \/ resetParams) ]_vars

\* a log with a buy and the sell that followed it is stored
C19_Witness ==
    /\ view = "backtest" /\ pc = "idle"
    /\ Len(tradeRecords) = 2
    /\ tradeRecords[1].action = "buy" /\ tradeRecords[2].action = "sell"
    /\ tradeRecords[1].date < tradeRecords[2].date

\* C20: a run is independent of the runs before it: it starts from the
\* initial capital with no shares and empty logs, every trade and sample it
\* holds was made in it, and its end replaces performanceMetrics,
\* tradeRecords and backtestData by what the run itself produced.
C20_RunsIndependent ==
    [][ /\ runBacktestStart
             => ( /\ currentEquity' = backtestParams.initialCapital
                  /\ shares' = 0 /\ lastBuyPrice' = 0
                  /\ price' = Yuan(100)
                  /\ trades' = <<>> /\ equity' = <<>> /\ dates' = <<>>
                  /\ prices' = <<>> /\ signals' = <<>> )
        /\ (pc' = "loop" /\ equity' # <<>>)
             => ( /\ equity'[1] = backtestParams'.initialCapital
                  /\ dates'[1] = dateRange'[1]
                  /\ \A k \in 1..Len(trades') :
                        \E j \in 1..Len(dates') : trades'[k].date = dates'[j] )
        /\ runBacktestFinish
             => ( /\ tradeRecords' = trades
                  /\ backtestData' = [dates |-> dates, prices |-> prices,
                                      signals |-> signals, equity |-> equity]
                  /\ performanceMetrics'
                        = PerformanceOf(equity, trades,
                                        backtestParams.initialCapital) ) ]_vars

\* a second run is in progress while the result of a first run that ended
\* away from the initial capital, with trades, is still on display
C20_Witness ==
    /\ view = "backtest" /\ pc = "loop" /\ i > 0
    /\ tradeRecords # <<>>
    /\ performanceMetrics.finalEquity # backtestParams.initialCapital
    /\ equity[1] = backtestParams.initialCapital
    /\ trades = <<>>

\* ---- DataCollection
\* the loop of run r is answered in this step
LoopStep(r) ==
    /\ r \in 1..Len(loops) /\ Running(loops, r)
    /\ Len(loops') = Len(loops)
    /\ loops'[r].i = loops[r].i + 1

\* C21: once the stop has been confirmed (collecting is false although the
\* loop has not ended), a step of that loop sends no request, adds no code
\* to collectedStocks and leaves collectionResult the 'interrupted' result.
C21_StoppedLoopIsSilent ==
    [][\A r \in 1..MaxRuns :
          (LoopStep(r) /\ ~collecting /\ collectionResult = "interrupted")
          => /\ RequestsSent(loops') = RequestsSent(loops)
             /\ collectedStocks' = collectedStocks
             /\ collectionResult' = "interrupted"]_vars

\* C22: collecting is true while a loop has not ended, at most one loop is
\* running, and a loop of an earlier run that ends neither sets collecting
\* to false nor stops the progress timer of the run started after it.
C22_OneLoopAtATime ==
    [][/\ \A r \in 1..Len(loops') : Running(loops', r) => collecting'
       /\ Cardinality({r \in 1..Len(loops') : Running(loops', r)}) <= 1
       /\ \A r \in 1..MaxRuns :
             (LoopStep(r) /\ ~Running(loops', r) /\ r < Len(loops))
             => /\ collecting' = collecting
                /\ collectionTimer' = collectionTimer]_vars

\* ---- risk warnings of the trade view
\* C23: activeWarnings is the number of riskWarnings whose status is
\* 'unhandled', whatever loadAllData, the warnings raised by trades and the
\* confirmed handleWarning calls have done.
C23_ActiveWarningsCounted == activeWarnings = Unhandled(riskWarnings)

\* ---- positions of the trade view
\* the entries of positions with this symbol
EntriesOf(ps, code) == {k \in 1..Len(ps) : ps[k].symbol = code}

\* the quantity held of code: that of its first entry, 0 without one
QuantityOf(ps, code) ==
    IF EntriesOf(ps, code) = {} THEN 0 ELSE HeldQuantity(ps, code)

\* C24: a confirmed buy of quantity q of the stock code typed into the buy
\* form leaves exactly one entry of positions with that code, and its
\* quantity is the quantity held before plus q.
C24_BuyMergesPosition ==
    [][ buyStockConfirm =>
           /\ Cardinality(EntriesOf(positions', buyForm.stockCode)) = 1
           /\ QuantityOf(positions', buyForm.stockCode) =
                  QuantityOf(positions, buyForm.stockCode) + buyForm.quantity
      ]_vars

\* ---- the login state in localStorage
\* C25: the keys 'token' and 'userInfo' are both stored or both absent,
\* whatever the order of login, logout, profile update and password change
\* and of the answers to their requests.
C25_TokenAndUserInfoTogether == (token = Null) <=> (userInfo = Null)

\* ---- notifications
\* C26: in the notification center and in the notification page a read
\* flag goes from false to true only in the step in which the mark-as-read
\* request succeeded (or the list is loaded anew), and a failed request
\* leaves the list and the unread count as they were.
C26_ReadOnlyAfterSuccess ==
    [][ LET MarkSucceeded ==
                \/ \E id \in NotificationIds :
                      \/ markAsReadResponse(id, TRUE)
                      \/ pageMarkAsReadResponse(id, TRUE)
                \/ markAllAsReadResponse(TRUE)
                \/ loadNotifications
                \/ \E list \in PageLists : pageLoadNotifications(list)
            MarkFailed ==
                \/ \E id \in NotificationIds :
                      \/ markAsReadResponse(id, FALSE)
                      \/ pageMarkAsReadResponse(id, FALSE)
                \/ markAllAsReadResponse(FALSE)
        IN /\ unreadCount(notifications') < unreadCount(notifications)
              => MarkSucceeded
           /\ MarkFailed =>
                 /\ notifications' = notifications
                 /\ unreadCount(notifications') = unreadCount(notifications)
      ]_vars

\* no two entries of the list have the same id
NoDuplicateIds(ns) ==
    \A j, k \in 1..Len(ns) : j # k => ns[j].id # ns[k].id

\* C27: whatever the polls answer, the list never holds an id twice, and
\* a poll opens a popup only for a notification that it has added to the
\* list: one popup per entry added, for an id that was not listed before.
C27_PollsAddOnce ==
    [][ LET shownNow == SubSeq(timers', Len(timers) + 1, Len(timers'))
        IN /\ NoDuplicateIds(notifications')
           /\ ( \/ \E news \in PollResponses :
                      checkForNewNotifications(news)
                \/ addMockNotification )
              => /\ Len(shownNow) =
                       Len(notifications') - Len(notifications)
                 /\ \A k \in 1..Len(shownNow) :
                       /\ \A j \in 1..Len(notifications) :
                             notifications[j].id # shownNow[k]
                       /\ \E j \in 1..Len(notifications') :
                             notifications'[j].id = shownNow[k]
      ]_vars

\* the mock list (ids 1 to 4) was on display when a poll answered with the
\* listed id 2 and twice the new id 6, and the poll has been taken in: 6 is
\* listed, and a popup timer has been set for it
C27_Witness ==
    /\ view = "notify"
    /\ \E j, k \in 1..Len(notifications) :
          notifications[j].id = 1 /\ notifications[k].id = 6
    /\ \E k \in 1..Len(timers) : timers[k] = 6

\* C28: a popup stays visible until the timer of the showNotification call
\* that opened it fires: a timer of an earlier call (one that is not the
\* last one pending) does not hide it.
C28_PopupKeepsItsFiveSeconds ==
    [][ ( /\ popupTimeout
          /\ showNotificationPopup
          /\ Len(timers) > 1 )
        => showNotificationPopup' ]_vars

\* ---- user management
\* C29: no DELETE request is ever sent for the administrator, user 1,
\* whether the list holds the id as the number 1 or as the string '1'.
C29_AdministratorNeverDeleted ==
    \A userId \in {[type |-> "number", v |-> "1"],
                    [type |-> "string", v |-> "1"]} :
        DeleteUrl(userId) \notin deleteRequests

====
